---- MODULE Spec2Model ----
(***************************************************************************)
(* yadisk_client: YaDisk.upload_or_replace, create_folders and             *)
(* get_meta_or_none running against a remote store.  A call is a sequence  *)
(* of blocking remote round trips; two calls issued by the host are either *)
(* serialized by it or interleaved at the round trips.                     *)
(***************************************************************************)
EXTENDS Integers, Sequences, FiniteSets, TLC

\* ------------------------------------------------------------ bounds
\* deepest remote_dir handed to a call (number of folder names in it)
MaxDepth == 2

\* ------------------------------------------------------------ constants
REPLACE_IF_DIFFERENT == 0
ALWAYS_REPLACE == 1
SKIP == 2
\* calculate_md5's default buf_size
DefaultBufSize == 2048

Policies == {REPLACE_IF_DIFFERENT, ALWAYS_REPLACE, SKIP}
Procs == {1, 2}
None == [type |-> "None"]
sep == "/"

\* ------------------------------------------------------------ strings
\* A string is a sequence of one-character strings.
Last(s) == s[Len(s)]

RECURSIVE split(_, _)
\* str.split(c): the pieces between the occurrences of c, empty ones kept
split(s, c) ==
    IF \A i \in 1..Len(s) : s[i] # c
    THEN <<s>>
    ELSE LET i == CHOOSE k \in 1..Len(s) : s[k] = c /\ \A j \in 1..(k-1) : s[j] # c
         IN  <<SubSeq(s, 1, i-1)>> \o split(SubSeq(s, i+1, Len(s)), c)

\* os.path.basename: what follows the final slash
basename(s) == Last(split(s, sep))

\* line 28
file_name(local_file) == Last(split(basename(local_file), "/"))

\* line 29
remote_path(remote_dir, local_file) == remote_dir \o <<"/">> \o file_name(local_file)

\* ------------------------------------------------------------ local files
RECURSIVE update(_, _)
\* hash_md5.update(chunk): the digest state after absorbing the chunk
update(h, chunk) ==
    IF chunk = <<>> THEN h
    ELSE update((h * 31 + Head(chunk) + 1) % 251, Tail(chunk))

\* f.read(buf_size)
read(rest, buf_size) ==
    IF Len(rest) <= buf_size THEN rest ELSE SubSeq(rest, 1, buf_size)

RECURSIVE md5_loop(_, _, _)
\* for chunk in iter(lambda: f.read(buf_size), b""): hash_md5.update(chunk)
md5_loop(h, rest, buf_size) ==
    LET chunk == read(rest, buf_size)
    IN  IF chunk = <<>> THEN h
        ELSE md5_loop(update(h, chunk), SubSeq(rest, Len(chunk) + 1, Len(rest)), buf_size)

\* the local files the host uploads: path |-> bytes
LocalFiles == { <<"f">>, <<"x", "/", "f">> }
LocalContent(file_path) ==
    IF file_path = <<"f">> THEN <<1, 2, 3>> ELSE <<2, 1>>

\* hash_md5.hexdigest(): the digest state as a string of two hexadecimal digits
hexdigest(h) ==
    LET digits == <<"0", "1", "2", "3", "4", "5", "6", "7",
                    "8", "9", "a", "b", "c", "d", "e", "f">>
    IN  <<digits[(h \div 16) + 1], digits[(h % 16) + 1]>>

\* a field that is None where a string is expected
NoString == <<>>

calculate_md5(file_path, buf_size) ==
    hexdigest(md5_loop(0, LocalContent(file_path), buf_size))

\* ------------------------------------------------------------ remote store
\* The store resolves a path string to its non-empty components.
Normalize(path) == SelectSeq(split(path, sep), LAMBDA seg : seg # <<>>)
Parent(np) == SubSeq(np, 1, Len(np) - 1)

Dir == [type |-> "dir"]
File(content) == [type |-> "file", content |-> content]

\* the md5 the store reports for a stored file
StoredMd5(entry) == hexdigest(update(0, entry.content))

\* the metadata record the store returns for an entry (fields not asked for,
\* or not defined for the entry, are None)
Meta(entry, fields) ==
    [type |-> IF "type" \in fields THEN entry.type ELSE "None",
     md5  |-> IF "md5" \in fields /\ entry.type = "file" THEN StoredMd5(entry) ELSE NoString]

\* a request that fails for a reason unrelated to the path (transport, auth, ...)
OtherError == "YaDiskError"

\* get_meta(path, fields): the outcomes the store can give
GetMetaResponses(st, path, fields) ==
    LET np == Normalize(path)
    IN  { IF np \in DOMAIN st
          THEN [err |-> "", val |-> Meta(st[np], fields)]
          ELSE [err |-> "PathNotFoundError", val |-> None],
          [err |-> OtherError, val |-> None] }

\* exists(path): get_meta with path-not-found turned into False
ExistsResponses(st, path) ==
    { IF r.err = "" THEN [err |-> "", val |-> TRUE]
      ELSE IF r.err = "PathNotFoundError" THEN [err |-> "", val |-> FALSE]
      ELSE [err |-> r.err, val |-> FALSE] : r \in GetMetaResponses(st, path, {}) }

ParentIsDir(st, np) ==
    /\ np # <<>>
    /\ Parent(np) \in DOMAIN st
    /\ st[Parent(np)].type = "dir"

\* mkdir(path): fails when the path exists or its parent is no directory
MkdirResponses(st, path) ==
    LET np == Normalize(path)
    IN  { IF np \in DOMAIN st THEN [err |-> "PathExistsError", store |-> st]
          ELSE IF ~ParentIsDir(st, np) THEN [err |-> "ParentNotFoundError", store |-> st]
          ELSE [err |-> "", store |-> (np :> Dir) @@ st],
          [err |-> OtherError, store |-> st] }

\* upload(local_file, path, overwrite): stores the bytes at path
UploadResponses(st, content, path, overwrite) ==
    LET np == Normalize(path)
    IN  { IF ~ParentIsDir(st, np) THEN [err |-> "ParentNotFoundError", store |-> st]
          ELSE IF np \in DOMAIN st /\ (st[np].type = "dir" \/ ~overwrite)
               THEN [err |-> "PathExistsError", store |-> st]
          ELSE [err |-> "", store |-> (np :> File(content)) @@ st],
          [err |-> OtherError, store |-> st] }

\* ------------------------------------------------------------ the client
\* get_meta_or_none with a bare except
get_meta_or_none_CatchAll(r) ==
    IF r.err # "" THEN [err |-> "", val |-> None]
    ELSE r

\* get_meta_or_none: PathNotFoundError becomes None, anything else is re-raised
get_meta_or_none(r) ==
    IF r.err = "PathNotFoundError" THEN [err |-> "", val |-> None]
    ELSE r

\* create_folders, line 61: the segments the loop walks, in order
LoopSegments(remote_dir) == split(remote_dir, sep)

\* NextCollector with = where line 62 has +=
NextCollector_NoAccumulate(path_collector, path_segment) == path_segment \o <<sep>>

\* create_folders, line 62
NextCollector(path_collector, path_segment) == path_collector \o path_segment \o <<sep>>

\* NeedsMkdir without the exists test
NeedsMkdir_Always(exists) == TRUE

\* create_folders, line 63
NeedsMkdir(exists) == ~exists

\* Decide with the digest comparison of line 42 dropped
Decide_NoCompare(cur_meta, conflict_resolution, local_file) ==
    IF cur_meta # None /\ cur_meta.type = "dir"
    THEN [do |-> "raise", md5 |-> NoString]
    ELSE IF cur_meta = None \/ conflict_resolution = ALWAYS_REPLACE
    THEN [do |-> "upload", md5 |-> NoString]
    ELSE IF conflict_resolution = REPLACE_IF_DIFFERENT
    THEN [do |-> "upload", md5 |-> calculate_md5(local_file, DefaultBufSize)]
    ELSE [do |-> "return", md5 |-> cur_meta.md5]

\* Decide with SKIP tested before the missing-file test of line 36
Decide_SkipFirst(cur_meta, conflict_resolution, local_file) ==
    IF cur_meta # None /\ cur_meta.type = "dir"
    THEN [do |-> "raise", md5 |-> NoString]
    ELSE IF conflict_resolution = SKIP
    THEN [do |-> "return", md5 |-> IF cur_meta = None THEN NoString ELSE cur_meta.md5]
    ELSE IF cur_meta = None \/ conflict_resolution = ALWAYS_REPLACE
    THEN [do |-> "upload", md5 |-> NoString]
    ELSE LET md5 == calculate_md5(local_file, DefaultBufSize)
         IN  IF cur_meta.md5 # md5
             THEN [do |-> "upload", md5 |-> md5]
             ELSE [do |-> "return", md5 |-> md5]

\* Decide with line 36 testing only for the missing file
Decide_ReplaceOnlyIfDifferent(cur_meta, conflict_resolution, local_file) ==
    IF cur_meta # None /\ cur_meta.type = "dir"
    THEN [do |-> "raise", md5 |-> NoString]
    ELSE IF cur_meta = None
    THEN [do |-> "upload", md5 |-> NoString]
    ELSE IF conflict_resolution \in {REPLACE_IF_DIFFERENT, ALWAYS_REPLACE}
    THEN LET md5 == calculate_md5(local_file, DefaultBufSize)
         IN  IF cur_meta.md5 # md5
             THEN [do |-> "upload", md5 |-> md5]
             ELSE [do |-> "return", md5 |-> md5]
    ELSE [do |-> "return", md5 |-> cur_meta.md5]

\* Decide with line 40 taken for SKIP too
Decide_SkipCompares(cur_meta, conflict_resolution, local_file) ==
    IF cur_meta # None /\ cur_meta.type = "dir"
    THEN [do |-> "raise", md5 |-> NoString]
    ELSE IF cur_meta = None \/ conflict_resolution = ALWAYS_REPLACE
    THEN [do |-> "upload", md5 |-> NoString]
    ELSE LET md5 == calculate_md5(local_file, DefaultBufSize)
         IN  IF cur_meta.md5 # md5
             THEN [do |-> "upload", md5 |-> md5]
             ELSE [do |-> "return", md5 |-> md5]

\* Decide without the directory test of lines 32-33
Decide_NoDirCheck(cur_meta, conflict_resolution, local_file) ==
    IF cur_meta = None \/ conflict_resolution = ALWAYS_REPLACE
    THEN [do |-> "upload", md5 |-> NoString]
    ELSE IF conflict_resolution = REPLACE_IF_DIFFERENT
    THEN LET md5 == calculate_md5(local_file, DefaultBufSize)
         IN  IF cur_meta.md5 # md5
             THEN [do |-> "upload", md5 |-> md5]
             ELSE [do |-> "return", md5 |-> md5]
    ELSE [do |-> "return", md5 |-> cur_meta.md5]

\* upload_or_replace, lines 32-49: what the call does once cur_meta is known
Decide(cur_meta, conflict_resolution, local_file) ==
    IF cur_meta # None /\ cur_meta.type = "dir"
    THEN [do |-> "raise", md5 |-> NoString]
    ELSE IF cur_meta = None \/ conflict_resolution = ALWAYS_REPLACE
    THEN [do |-> "upload", md5 |-> NoString]
    ELSE IF conflict_resolution = REPLACE_IF_DIFFERENT
    THEN LET md5 == calculate_md5(local_file, DefaultBufSize)
         IN  IF cur_meta.md5 # md5
             THEN [do |-> "upload", md5 |-> md5]
             ELSE [do |-> "return", md5 |-> md5]
    ELSE IF conflict_resolution = SKIP
    THEN [do |-> "return", md5 |-> cur_meta.md5]
    ELSE [do |-> "return", md5 |-> NoString]

\* ReturnedMd5 handing back the local variable md5 instead of new_meta's
ReturnedMd5_Local(new_meta, md5) == md5

\* upload_or_replace, lines 39 and 45: the md5 handed back after an upload
ReturnedMd5(new_meta, md5) == new_meta.md5

\* ------------------------------------------------------------ state
VARIABLES
    store,          \* the remote store: resolved path |-> entry
    serialized,     \* the host runs its calls one after the other
    pc,             \* where each call stands
    args,           \* each call's local_file, remote_dir, conflict_resolution
    i,              \* create_folders: index of the segment being handled
    path_collector, \* create_folders: path_collector
    cur_meta,       \* upload_or_replace: cur_meta
    md5,            \* upload_or_replace: md5
    result,         \* the value returned
    raised,         \* the exception the call ended with
    log             \* the remote requests each call issued, with their outcome

vars == <<store, serialized, pc, args, i, path_collector, cur_meta, md5,
          result, raised, log>>

\* remote_dir values handed to calls: a, a/a, ... and a form with a leading slash
RECURSIVE DirOfDepth(_)
DirOfDepth(n) == IF n = 1 THEN <<"a">> ELSE DirOfDepth(n - 1) \o <<"/", "a">>
RemoteDirs == { DirOfDepth(n) : n \in 1..MaxDepth } \cup { <<"/", "a">> }

NoArgs == [local_file |-> <<>>, remote_dir |-> <<>>, conflict_resolution |-> -1]

\* resolved paths that may hold something before the first call
RECURSIVE Chain(_)
Chain(n) == IF n = 0 THEN <<>> ELSE Chain(n - 1) \o << <<"a">> >>
InitPaths == { Chain(n) : n \in 1..2 } \cup { Chain(n) \o << <<"f">> >> : n \in 1..2 }
InitEntries(np) ==
    IF Last(np) = <<"f">>
    THEN {Dir} \cup { File(LocalContent(lf)) : lf \in LocalFiles }
    ELSE {Dir, File(<<7>>)}

\* a store is a tree: everything but the root lies in a directory
IsTree(st) == \A np \in DOMAIN st : np = <<>> \/ ParentIsDir(st, np)

InitStores ==
    LET Absent == [type |-> "absent"]
        Shapes == { f \in [InitPaths -> UNION { InitEntries(np) : np \in InitPaths } \cup {Absent}] :
                      \A np \in InitPaths : f[np] = Absent \/ f[np] \in InitEntries(np) }
        AsStore(f) == [np \in { q \in InitPaths : f[q] # Absent } \cup {<<>>} |->
                         IF np = <<>> THEN Dir ELSE f[np]]
    IN  { st \in { AsStore(f) : f \in Shapes } : IsTree(st) }

Init ==
    /\ store \in InitStores
    /\ serialized \in BOOLEAN
    /\ pc = [p \in Procs |-> "idle"]
    /\ args = [p \in Procs |-> NoArgs]
    /\ i = [p \in Procs |-> 0]
    /\ path_collector = [p \in Procs |-> <<>>]
    /\ cur_meta = [p \in Procs |-> None]
    /\ md5 = [p \in Procs |-> NoString]
    /\ result = [p \in Procs |-> <<>>]
    /\ raised = [p \in Procs |-> ""]
    /\ log = [p \in Procs |-> <<>>]

Ended(p) == pc[p] \in {"done", "raised"}

\* a call advances only when the host lets it: always, or when no other call is under way
MayRun(p) == ~serialized \/ \A q \in Procs \ {p} : pc[q] = "idle" \/ Ended(q)

Logged(p, op, path, err) == log' = [log EXCEPT ![p] = Append(@, [op |-> op, path |-> path, err |-> err])]

Raise(p, err) ==
    /\ pc' = [pc EXCEPT ![p] = "raised"]
    /\ raised' = [raised EXCEPT ![p] = err]

Return(p, path, digest) ==
    /\ pc' = [pc EXCEPT ![p] = "done"]
    /\ result' = [result EXCEPT ![p] = <<path, digest>>]

\* the host's calls are numbered in the order it starts them, and all of them
\* are for the same remote folder
TargetDirs == IF \E q \in Procs : pc[q] # "idle"
              THEN { args[q].remote_dir : q \in { r \in Procs : pc[r] # "idle" } }
              ELSE RemoteDirs

\* the host calls upload_or_replace(local_file, remote_dir, conflict_resolution)
Call(p) ==
    /\ MayRun(p)
    /\ pc[p] = "idle"
    /\ \A q \in Procs : q < p => pc[q] # "idle"
    /\ \E lf \in LocalFiles, rd \in TargetDirs, cr \in Policies :
         args' = [args EXCEPT ![p] = [local_file |-> lf, remote_dir |-> rd,
                                      conflict_resolution |-> cr]]
    /\ pc' = [pc EXCEPT ![p] = "exists"]
    /\ i' = [i EXCEPT ![p] = 1]
    /\ path_collector' = [path_collector EXCEPT ![p] = <<>>]
    /\ UNCHANGED <<store, serialized, cur_meta, md5, result, raised, log>>

\* create_folders: the loop moves to the next segment, or the call goes on to line 28
Advance(p) ==
    IF i[p] = Len(LoopSegments(args[p].remote_dir))
    THEN /\ pc' = [pc EXCEPT ![p] = "get_cur_meta"]
         /\ i' = i
    ELSE /\ pc' = [pc EXCEPT ![p] = "exists"]
         /\ i' = [i EXCEPT ![p] = @ + 1]

\* create_folders, lines 62-63: extend path_collector and ask whether it exists
CfExists(p) ==
    /\ MayRun(p)
    /\ pc[p] = "exists"
    /\ LET collected == NextCollector(path_collector[p], LoopSegments(args[p].remote_dir)[i[p]])
       IN  /\ path_collector' = [path_collector EXCEPT ![p] = collected]
           /\ \E r \in ExistsResponses(store, collected) :
                /\ Logged(p, "exists", collected, r.err)
                /\ IF r.err # ""
                   THEN Raise(p, r.err) /\ i' = i
                   ELSE /\ raised' = raised
                        /\ IF NeedsMkdir(r.val)
                           THEN pc' = [pc EXCEPT ![p] = "mkdir"] /\ i' = i
                           ELSE Advance(p)
    /\ UNCHANGED <<store, serialized, args, cur_meta, md5, result>>

\* create_folders, line 64
CfMkdir(p) ==
    /\ MayRun(p)
    /\ pc[p] = "mkdir"
    /\ \E r \in MkdirResponses(store, path_collector[p]) :
         /\ Logged(p, "mkdir", path_collector[p], r.err)
         /\ store' = r.store
         /\ IF r.err # ""
            THEN Raise(p, r.err) /\ i' = i
            ELSE raised' = raised /\ Advance(p)
    /\ UNCHANGED <<serialized, args, path_collector, cur_meta, md5, result>>

\* upload_or_replace, lines 28-49 up to the upload
GetCurMeta(p) ==
    /\ MayRun(p)
    /\ pc[p] = "get_cur_meta"
    /\ LET path == remote_path(args[p].remote_dir, args[p].local_file)
       IN  \E r \in GetMetaResponses(store, path, {"type", "md5"}) :
             LET m == get_meta_or_none(r)
                 d == Decide(m.val, args[p].conflict_resolution, args[p].local_file)
             IN  /\ Logged(p, "get_meta", path, r.err)
                 /\ IF m.err # ""
                    THEN Raise(p, m.err) /\ UNCHANGED <<cur_meta, md5, result>>
                    ELSE /\ cur_meta' = [cur_meta EXCEPT ![p] = m.val]
                         /\ md5' = [md5 EXCEPT ![p] = d.md5]
                         /\ IF d.do = "raise"
                            THEN Raise(p, "ValueError") /\ result' = result
                            ELSE IF d.do = "upload"
                            THEN /\ pc' = [pc EXCEPT ![p] = "upload"]
                                 /\ UNCHANGED <<result, raised>>
                            ELSE Return(p, path, d.md5) /\ raised' = raised
    /\ UNCHANGED <<store, serialized, args, i, path_collector>>

\* upload_or_replace, lines 37 and 43
Upload(p) ==
    /\ MayRun(p)
    /\ pc[p] = "upload"
    /\ LET path == remote_path(args[p].remote_dir, args[p].local_file)
       IN  \E r \in UploadResponses(store, LocalContent(args[p].local_file), path, TRUE) :
             /\ Logged(p, "upload", path, r.err)
             /\ store' = r.store
             /\ IF r.err # ""
                THEN Raise(p, r.err)
                ELSE pc' = [pc EXCEPT ![p] = "get_new_meta"] /\ raised' = raised
    /\ UNCHANGED <<serialized, args, i, path_collector, cur_meta, md5, result>>

\* upload_or_replace, lines 38-39 and 44-45
GetNewMeta(p) ==
    /\ MayRun(p)
    /\ pc[p] = "get_new_meta"
    /\ LET path == remote_path(args[p].remote_dir, args[p].local_file)
       IN  \E r \in GetMetaResponses(store, path, {"md5"}) :
             LET new_meta == get_meta_or_none(r)
             IN  /\ Logged(p, "get_meta", path, r.err)
                 /\ IF new_meta.err # ""
                    THEN Raise(p, new_meta.err) /\ result' = result
                    ELSE IF new_meta.val = None
                    THEN Raise(p, "TypeError") /\ result' = result
                    ELSE Return(p, path, ReturnedMd5(new_meta.val, md5[p])) /\ raised' = raised
    /\ UNCHANGED <<store, serialized, args, i, path_collector, cur_meta, md5>>

Next ==
    \E p \in Procs :
        \/ Call(p)
        \/ CfExists(p)
        \/ CfMkdir(p)
        \/ GetCurMeta(p)
        \/ Upload(p)
        \/ GetNewMeta(p)

Spec == Init /\ [][Next]_vars

\* ------------------------------------------------------------ what a call did
\* the requests of one kind a call has issued so far, in order
Ops(p, op) == SelectSeq(log[p], LAMBDA e : e.op = op)

\* remote_dir + "/" + basename(local_file), and the place it resolves to
TargetString(p) == args[p].remote_dir \o <<"/">> \o basename(args[p].local_file)
Target(p) == Normalize(TargetString(p))

LocalMd5(p) == hexdigest(update(0, LocalContent(args[p].local_file)))

\* the call has looked the target up (line 31) and the store answered
LookedUp(p) == Ops(p, "get_meta") # <<>> /\ Ops(p, "get_meta")[1].err \in {"", "PathNotFoundError"}
FoundAbsent(p) == LookedUp(p) /\ Ops(p, "get_meta")[1].err = "PathNotFoundError"
FoundFile(p) == LookedUp(p) /\ cur_meta[p] # None /\ cur_meta[p].type = "file"
FoundDir(p) == LookedUp(p) /\ cur_meta[p] # None /\ cur_meta[p].type = "dir"

\* exactly one upload was issued, to the target, overwriting
UploadedOnce(p) ==
    /\ Len(Ops(p, "upload")) = 1
    /\ Ops(p, "upload")[1].path = TargetString(p)

\* the call is at, or past, its single upload
UploadsOnce(p) ==
    \/ pc[p] = "upload" /\ Ops(p, "upload") = <<>>
    \/ pc[p] \in {"get_new_meta", "done", "raised"} /\ UploadedOnce(p)

\* a step of call p that issues a remote request
StepOf(p) == log'[p] # log[p]

\* call p returns in this step, after its upload
ReturnsAfterUpload(p) == pc[p] = "get_new_meta" /\ pc'[p] = "done"

\* ... and what it returns is the target and the md5 the store holds for it then
ReturnsReported(p) ==
    /\ Target(p) \in DOMAIN store
    /\ store[Target(p)].type = "file"
    /\ result'[p] = <<TargetString(p), StoredMd5(store[Target(p)])>>

\* the file at the target is left as it is by this step (C1, C5: of a call
\* that did not find the target absent, a file put there by someone else
\* after the lookup not being one that "already exists" for the call)
TargetUntouched(p) == Target(p) \in DOMAIN store' /\ store'[Target(p)] = store[Target(p)]

\* ------------------------------------------------------------ C1
C1_Case(p) ==
    /\ args[p].conflict_resolution = REPLACE_IF_DIFFERENT
    /\ FoundFile(p)
    /\ cur_meta[p].md5 = LocalMd5(p)

C1_State ==
    \A p \in Procs : C1_Case(p) =>
        /\ pc[p] = "done"
        /\ Ops(p, "upload") = <<>>
        /\ result[p] = <<TargetString(p), cur_meta[p].md5>>

C1_Frame ==
    \A p \in Procs :
        ( /\ args[p].conflict_resolution = REPLACE_IF_DIFFERENT
          /\ StepOf(p)
          /\ ~FoundAbsent(p)
          /\ Target(p) \in DOMAIN store
          /\ store[Target(p)].type = "file"
          /\ StoredMd5(store[Target(p)]) = LocalMd5(p) ) => TargetUntouched(p)

\* C1: under REPLACE_IF_DIFFERENT, when the target is a file whose md5 equals
\* the local file's, the call issues no upload, none of its requests changes
\* the file, and it returns the target path with the unchanged remote md5.
C1_NoUploadWhenSame == []C1_State /\ [][C1_Frame]_vars

C1_Witness ==
    \E p \in Procs : C1_Case(p) /\ pc[p] = "done" /\ Len(log[p]) >= 2

\* ------------------------------------------------------------ C2
C2_Case(p) ==
    /\ args[p].conflict_resolution = REPLACE_IF_DIFFERENT
    /\ FoundFile(p)
    /\ cur_meta[p].md5 # LocalMd5(p)

C2_State == \A p \in Procs : (C2_Case(p) => UploadsOnce(p)) /\ Len(Ops(p, "upload")) <= 1

C2_Return == \A p \in Procs : C2_Case(p) /\ ReturnsAfterUpload(p) => ReturnsReported(p)

\* C2: under REPLACE_IF_DIFFERENT, when the target is a file whose md5 differs
\* from the local file's, the call issues exactly one upload, to the target,
\* and returns the md5 the store reports for the target after it; no call
\* issues more than one upload.
C2_UploadWhenDifferent == []C2_State /\ [][C2_Return]_vars

C2_Witness ==
    \E p \in Procs :
        /\ C2_Case(p) /\ pc[p] = "done" /\ UploadedOnce(p)
        /\ result[p][2] # LocalMd5(p)

\* ------------------------------------------------------------ C3
C3_State == \A p \in Procs : FoundAbsent(p) => UploadsOnce(p)

C3_Return == \A p \in Procs : FoundAbsent(p) /\ ReturnsAfterUpload(p) => ReturnsReported(p)

\* C3: when nothing exists at the target, the call issues exactly one upload
\* under each of the three policies, and returns
\* remote_dir + "/" + basename(local_file) with the md5 the store reports
\* for it after the upload.
C3_UploadWhenAbsent == []C3_State /\ [][C3_Return]_vars

C3_Witness ==
    \E p \in Procs :
        /\ FoundAbsent(p) /\ pc[p] = "done" /\ UploadedOnce(p)
        /\ args[p].conflict_resolution = SKIP
        /\ args[p].local_file = <<"x", "/", "f">>
        /\ result[p] = <<args[p].remote_dir \o <<"/", "f">>, LocalMd5(p)>>

\* ------------------------------------------------------------ C4
C4_Case(p) ==
    /\ args[p].conflict_resolution = ALWAYS_REPLACE
    /\ FoundAbsent(p) \/ FoundFile(p)

C4_State == \A p \in Procs : C4_Case(p) => UploadsOnce(p)

C4_Return == \A p \in Procs : C4_Case(p) /\ ReturnsAfterUpload(p) => ReturnsReported(p)

\* C4: under ALWAYS_REPLACE, when the target is absent or a file, exactly one
\* upload is issued whether or not the digests match, and the md5 returned
\* is the one the store reports after the upload.
C4_AlwaysReplace == []C4_State /\ [][C4_Return]_vars

C4_Witness ==
    \E p \in Procs :
        /\ C4_Case(p) /\ FoundFile(p) /\ cur_meta[p].md5 = LocalMd5(p)
        /\ pc[p] = "done" /\ UploadedOnce(p)

\* ------------------------------------------------------------ C5
C5_Case(p) == args[p].conflict_resolution = SKIP /\ FoundFile(p)

C5_State ==
    \A p \in Procs : C5_Case(p) =>
        /\ pc[p] = "done"
        /\ Ops(p, "upload") = <<>>
        /\ result[p] = <<TargetString(p), cur_meta[p].md5>>

C5_Frame ==
    \A p \in Procs :
        ( /\ args[p].conflict_resolution = SKIP
          /\ StepOf(p)
          /\ ~FoundAbsent(p)
          /\ Target(p) \in DOMAIN store
          /\ store[Target(p)].type = "file" ) => TargetUntouched(p)

\* C5: under SKIP, when the target is a file, the call issues no upload, none
\* of its requests changes the file, and it returns the existing remote md5,
\* also when that differs from the local file's.
C5_SkipKeepsRemote == []C5_State /\ [][C5_Frame]_vars

C5_Witness ==
    \E p \in Procs : C5_Case(p) /\ pc[p] = "done" /\ result[p][2] # LocalMd5(p)

\* ------------------------------------------------------------ C6
\* C6: when the target exists as a directory, the call fails with the
\* conflict error of line 33 under every policy and issues no upload.
C6_DirectoryConflict ==
    \A p \in Procs : FoundDir(p) =>
        /\ pc[p] = "raised"
        /\ raised[p] = "ValueError"
        /\ Ops(p, "upload") = <<>>

C6_Witness ==
    \E p, q \in Procs :
        /\ FoundDir(p) /\ pc[p] = "raised" /\ args[p].conflict_resolution = ALWAYS_REPLACE
        /\ FoundDir(q) /\ pc[q] = "raised" /\ args[q].conflict_resolution = SKIP

\* ------------------------------------------------------------ C7
\* the folders remote_dir names, root first
Folders(p) ==
    LET np == Normalize(args[p].remote_dir)
    IN  { SubSeq(np, 1, k) : k \in 1..Len(np) }

C7_PrefixIsFile(p) ==
    \E np \in Folders(p) : np \in DOMAIN store /\ store[np].type = "file"

\* C7: if a cumulative prefix of remote_dir exists as a file, the call fails
\* in create_folders, before any get_meta or upload for the target is issued.
C7_FileAncestorFailsFirst ==
    \A p \in Procs : pc[p] # "idle" /\ C7_PrefixIsFile(p) =>
        /\ pc[p] \in {"exists", "mkdir", "raised"}
        /\ Ops(p, "get_meta") = <<>>
        /\ Ops(p, "upload") = <<>>

\* ------------------------------------------------------------ C8
IsPrefix(s, t) == Len(s) <= Len(t) /\ SubSeq(t, 1, Len(s)) = s

\* create_folders has run to its end
FoldersDone(p) == pc[p] \in {"get_cur_meta", "upload", "get_new_meta", "done"} \/ Ops(p, "get_meta") # <<>>

C8_State ==
    \A p \in Procs :
        LET visited == Ops(p, "exists")
        IN  \* the prefixes are visited root first, one level at a time
            /\ \A k \in 1..Len(visited) :
                 /\ IsPrefix(Normalize(visited[k].path), Normalize(args[p].remote_dir))
                 /\ k > 1 => /\ IsPrefix(Normalize(visited[k-1].path), Normalize(visited[k].path))
                             /\ Len(Normalize(visited[k].path)) = Len(Normalize(visited[k-1].path)) + 1
            \* all of them, when the loop is over
            /\ FoldersDone(p) => Folders(p) \subseteq { Normalize(visited[k].path) : k \in 1..Len(visited) }
            \* mkdir is only ever issued for the prefix just looked at
            /\ \A n \in 1..Len(log[p]) : log[p][n].op = "mkdir" =>
                 /\ n > 1
                 /\ log[p][n-1] = [op |-> "exists", path |-> log[p][n].path, err |-> ""]
            \* a second call right after a first one creates nothing and does not fail
            /\ (serialized /\ p > 1 /\ FoldersDone(p - 1)) =>
                 /\ Ops(p, "mkdir") = <<>>
                 /\ (pc[p] = "raised" /\ ~FoldersDone(p)) => raised[p] = OtherError

C8_Step ==
    \A p \in Procs :
        \* after looking at a prefix, mkdir comes next exactly when it does not exist
        /\ (pc[p] = "exists" /\ StepOf(p) /\ pc'[p] # "raised") =>
             (pc'[p] = "mkdir" <=> Normalize(path_collector'[p]) \notin DOMAIN store)
        \* mkdir is issued under a parent that exists, and, with no other call
        \* under way, for a path that does not
        /\ (pc[p] = "mkdir" /\ StepOf(p)) =>
             /\ Parent(Normalize(path_collector[p])) \in DOMAIN store
             /\ serialized => Normalize(path_collector[p]) \notin DOMAIN store

\* C8: create_folders visits the cumulative prefixes of remote_dir root first
\* and issues mkdir exactly for those that do not exist when visited, never
\* under a missing parent and never for an existing path; a second call right
\* after a first issues no mkdir and does not fail.
C8_CreateFolders == []C8_State /\ [][C8_Step]_vars

C8_Witness ==
    /\ serialized
    /\ Len(Ops(1, "mkdir")) = 2
    /\ \A k \in 1..2 : Ops(1, "mkdir")[k].err = ""
    /\ Normalize(Ops(1, "mkdir")[1].path) = << <<"a">> >>
    /\ Normalize(Ops(1, "mkdir")[2].path) = << <<"a">>, <<"a">> >>
    /\ Len(Ops(2, "exists")) = 2
    /\ FoldersDone(2)
    /\ Ops(2, "mkdir") = <<>>

\* ------------------------------------------------------------ C9
\* a request that failed, path-not-found on get_meta aside
Failed(e) == e.err # "" /\ ~(e.op = "get_meta" /\ e.err = "PathNotFoundError")

C9_State ==
    \A p \in Procs :
        \* line 31: None exactly for path-not-found
        /\ Ops(p, "get_meta") # <<>> =>
             LET e == Ops(p, "get_meta")[1]
             IN  /\ e.err = "PathNotFoundError" => cur_meta[p] = None /\ UploadsOnce(p)
                 /\ e.err = "" => cur_meta[p] # None
        \* a failed request is the call's last, and its error is what the call raises
        /\ \A k \in 1..Len(log[p]) : Failed(log[p][k]) =>
             /\ k = Len(log[p])
             /\ pc[p] = "raised"
             /\ raised[p] = log[p][k].err
        /\ pc[p] = "raised" =>
             \/ raised[p] = "ValueError" /\ FoundDir(p)
             \/ log[p] # <<>> /\ Failed(Last(log[p])) /\ raised[p] = Last(log[p]).err

C9_Step ==
    \A p \in Procs :
        \* nothing is issued after the failure, and the failing step undoes nothing
        /\ pc[p] = "raised" => log'[p] = log[p]
        /\ (StepOf(p) /\ pc'[p] = "raised") => store' = store

\* C9: get_meta_or_none gives None exactly when get_meta fails with
\* path-not-found; any other failure of exists, mkdir, get_meta or upload is
\* raised unchanged by upload_or_replace, which then issues no further
\* request and rolls nothing back.
C9_ErrorsPropagate == []C9_State /\ [][C9_Step]_vars

C9_Witness ==
    \E p \in Procs :
        /\ pc[p] = "raised" /\ raised[p] = OtherError
        /\ FoundAbsent(p)
        /\ Last(log[p]).op = "upload"
        /\ Ops(p, "mkdir") # <<>>
        /\ \A k \in 1..Len(Ops(p, "mkdir")) : Normalize(Ops(p, "mkdir")[k].path) \in DOMAIN store
        /\ Target(p) \notin DOMAIN store

\* ------------------------------------------------------------ C10
\* both calls are for the same local file, under REPLACE_IF_DIFFERENT
SameCalls ==
    /\ pc[2] # "idle"
    /\ args[1] = args[2]
    /\ args[1].conflict_resolution = REPLACE_IF_DIFFERENT

Uploaded(p) == \E k \in 1..Len(log[p]) : log[p][k].op = "upload" /\ log[p][k].err = ""

C10_State ==
    (serialized /\ SameCalls) =>
        /\ \A p \in Procs : \A k \in 1..Len(log[p]) : log[p][k].err # "PathExistsError"
        /\ (pc[1] = "done" \/ Uploaded(1)) =>
             /\ Ops(2, "upload") = <<>>
             /\ pc[2] = "raised" => raised[2] = OtherError
             /\ pc[2] = "done" => result[2] = <<TargetString(1), LocalMd5(1)>>

C10_Step ==
    \A p \in Procs :
        (pc[p] = "mkdir" /\ StepOf(p) /\ Normalize(path_collector[p]) \in DOMAIN store) =>
            /\ ~serialized
            /\ pc'[p] = "raised"
            /\ raised'[p] \in {"PathExistsError", OtherError}

\* C10: run one after the other under REPLACE_IF_DIFFERENT, two calls for the
\* same local file and remote_dir upload at most once, the first, and neither
\* fails on what the other did; a mkdir for a folder that exists is only ever
\* issued by interleaved calls, and it fails the call that issues it.
C10_SerializedCallsAgree == []C10_State /\ [][C10_Step]_vars

\* interleaved, both calls upload the file
C10_Witness ==
    /\ ~serialized
    /\ SameCalls
    /\ \A p \in Procs : pc[p] = "done" /\ UploadedOnce(p) /\ Uploaded(p)

\* interleaved, the second call's mkdir hits the folder the first has made
\* since the second looked
C10_MkdirRace ==
    /\ ~serialized
    /\ SameCalls
    /\ pc[2] = "raised" /\ raised[2] = "PathExistsError"
    /\ Last(log[2]).op = "mkdir"
    /\ \E k \in 1..Len(log[1]) :
         log[1][k] = [op |-> "mkdir", path |-> Last(log[2]).path, err |-> ""]

====
